---- MODULE Spec2Model ----
(***************************************************************************)
(* Model of the crypto converter: the base-currency validators, the quote  *)
(* store (one SQLite table shared by the API process and the ingester      *)
(* process), the rate resolver and the /convert endpoint.                  *)
(*                                                                         *)
(* Symbols are sequences of one-character strings.  Time is counted in     *)
(* whole seconds.  A price and a rate are exact rationals.                 *)
(***************************************************************************)
EXTENDS Integers, Sequences, FiniteSets, TLC

VARIABLES
    vFrom,      \* validators: first symbol under test
    vTo,        \* validators: second symbol under test
    vPc,        \* validators: "start", "validated", "endpoint"
    vResult,    \* validators: outcome of the check that ran
    rows,       \* the quotes table: records id, symbol, price, timestamp
    nextId,     \* AUTOINCREMENT counter of the quotes table
    now,        \* wall clock, seconds, UTC
    req,        \* the conversion request in progress
    harness,    \* the QuoteStorage class that direct callers of the store use
    quotes_buffer,  \* QuoteConsumer.quotes_buffer
    last_poll,  \* the time of the latest poll of _http_handler, 0 before it
    flush,      \* the flush task: position and the batch it took
    svc,        \* the lifecycle of the two services: phase, tasks, connections
    tv,         \* validate_timestamp: argument, result, result of a second call
    qs          \* one QuoteStorage instance: _connection, the connections
                \* it opened, and its callers

\* the variables of the units taken on their own: the functions of
\* validators.py and one QuoteStorage instance
vvars == <<vFrom, vTo, vPc, vResult, tv, qs>>

storevars == <<rows, nextId, now, req, harness>>

ingestvars == <<quotes_buffer, last_poll, flush, svc>>

vars == <<vFrom, vTo, vPc, vResult, rows, nextId, now, req, harness,
          quotes_buffer, last_poll, flush, svc, tv, qs>>

----------------------------------------------------------------------------
(* Bounds *)

MaxSymLen == 6

\* connections that one QuoteStorage instance opens in a run
MaxConnections == 3

----------------------------------------------------------------------------
(* Python string primitives *)

Min(a, b) == IF a <= b THEN a ELSE b
Max(a, b) == IF a >= b THEN a ELSE b

\* s[-k:] for k > 0: the last k items, the whole string when k > len(s)
SliceLast(s, k) == SubSeq(s, Max(Len(s) - k, 0) + 1, Len(s))

\* str.endswith
EndsWith(s, suffix) ==
    /\ Len(suffix) <= Len(s)
    /\ SubSeq(s, Len(s) - Len(suffix) + 1, Len(s)) = suffix

\* str.upper, per character, for the letters the inputs are drawn from
UpperChar(c) ==
    CASE c = "b" -> "B"
      [] c = "t" -> "T"
      [] c = "c" -> "C"
      [] c = "u" -> "U"
      [] c = "s" -> "S"
      [] c = "d" -> "D"
      [] c = "e" -> "E"
      [] c = "h" -> "H"
      [] OTHER -> c

UpperUnchanged(s) == s
Upper(s) == [i \in 1..Len(s) |-> UpperChar(s[i])]

----------------------------------------------------------------------------
(* api/validators.py *)

ERROR_UNSUPPORTED_CONVERSION == "unsupported_conversion"

\* the HTTPException of validators.py lines 37-44; the message is kept as
\* the two symbols that the f-string interpolates
UnsupportedConversion(from_currency, to_currency) ==
    [ok |-> FALSE, status_code |-> 422, error |-> ERROR_UNSUPPORTED_CONVERSION,
     message |-> [from |-> from_currency, to |-> to_currency], matched |-> 0]

\* `range(min_length - 2, 2, -1)` starts at min_length - 2 ...
RangeStartOffBy1(min_length) == min_length - 1
RangeStartMinus3(min_length) == min_length - 3
RangeStart(min_length) == min_length - 2

\* ... and stops before 2
RangeStopAt3 == 3
RangeStop == 2

RECURSIVE SuffixLoop(_, _, _)
\* the for loop of lines 32-35, base_length counting down; "matched" is the
\* value base_length has when the function returns
SuffixLoop(from_currency, to_currency, base_length) ==
    IF base_length <= RangeStop
    THEN UnsupportedConversion(from_currency, to_currency)
    ELSE IF EndsWith(to_currency, SliceLast(from_currency, base_length))
         THEN [ok |-> TRUE, status_code |-> 0, error |-> "",
               message |-> [from |-> <<>>, to |-> <<>>], matched |-> base_length]
         ELSE SuffixLoop(from_currency, to_currency, base_length - 1)

validate_same_base_currencies(from_currency, to_currency) ==
    LET min_length == Min(Len(from_currency), Len(to_currency))
    IN  SuffixLoop(from_currency, to_currency, RangeStart(min_length))

----------------------------------------------------------------------------
(* api/service.py: the pair check of the /convert endpoint *)

common_bases == << <<"U","S","D","T">>, <<"B","T","C">>, <<"E","T","H">>,
                  <<"B","N","B">> >>

is_direct_pair(from_symbol, to_symbol) ==
    \E i \in 1..Len(common_bases) :
        EndsWith(from_symbol, common_bases[i]) /\ EndsWith(to_symbol, common_bases[i])

----------------------------------------------------------------------------
(* Time, timestamps and their ISO-8601 text *)

T0 == 907200                    \* the clock at start: day 10, 12:00:00 UTC
QUOTE_FRESHNESS_SECONDS == 60

\* a datetime: wall-clock seconds `local`, and for an aware value the UTC
\* offset `off` in seconds; a naive value has aware = FALSE and off = 0
Stamp(local, aware, off) == [local |-> local, aware |-> aware, off |-> off]

NoStamp == Stamp(0, FALSE, 0)

\* datetime.now(UTC)
NowUTC(clock) == Stamp(clock, TRUE, 0)

\* the instant of a datetime, a naive one read as UTC
\* (dt.replace(tzinfo=UTC) if dt.tzinfo is None else dt)
Instant(dt) == IF dt.aware THEN dt.local - dt.off ELSE dt.local

\* datetime.isoformat() of a whole-second value is the 19 characters of
\* the wall-clock time followed by nothing (naive), "+HH:MM" or "-HH:MM".
\* SQLite compares the TEXT column byte by byte: first the wall-clock
\* digits, then the suffix, where "" < "+.." < "-.." and equal signs
\* compare by the digits of the offset.
IsoKey(dt) ==
    <<dt.local,
      IF ~dt.aware THEN 0 ELSE IF dt.off >= 0 THEN 1 ELSE 2,
      IF dt.off >= 0 THEN dt.off ELSE 0 - dt.off>>

IsoLess(a, b) ==
    LET ka == IsoKey(a)
        kb == IsoKey(b)
    IN  \/ ka[1] < kb[1]
        \/ ka[1] = kb[1] /\ ka[2] < kb[2]
        \/ ka[1] = kb[1] /\ ka[2] = kb[2] /\ ka[3] < kb[3]

IsoEq(a, b) == IsoKey(a) = IsoKey(b)

IsoLeq(a, b) == IsoLess(a, b) \/ IsoEq(a, b)

\* datetime.fromisoformat(row["timestamp"]) gives back the value that
\* isoformat() wrote
FromIso(dt) == Stamp(dt.local, dt.aware, dt.off)

----------------------------------------------------------------------------
(* Quotes and rows *)

MkQuote(symbol, price, timestamp) ==
    [symbol |-> symbol, price |-> price, timestamp |-> timestamp]

NoQuote == MkQuote(<<>>, 0, NoStamp)

\* the Quote built from a fetched row (quote_storage.py lines 116-122)
RowQuote(row) == MkQuote(row.symbol, row.price, FromIso(row.timestamp))

\* storage/models.py: price is Field(gt=0); shared/models.py: no constraint
ModelAccepts(model, price) == model = "shared" \/ price > 0

Found(q) == [kind |-> "quote", quote |-> q]
NotFoundResult == [kind |-> "none", quote |-> NoQuote]
Raised == [kind |-> "raised", quote |-> NoQuote]
NotCalled == [kind |-> "not_called", quote |-> NoQuote]

\* the rows appended by one executemany: one new id per quote, in order
RECURSIVE InsertAll(_, _)
InsertAll(quotes, firstId) ==
    IF quotes = <<>> THEN {}
    ELSE {[id |-> firstId, symbol |-> Head(quotes).symbol,
           price |-> Head(quotes).price,
           timestamp |-> Head(quotes).timestamp]}
         \cup InsertAll(Tail(quotes), firstId + 1)

\* SELECT ... WHERE symbol = ? ORDER BY timestamp DESC LIMIT 1: the rows
\* among which the engine picks the one it returns (rows with the same
\* text tie, and which of them comes first is not specified)
LatestRows(symbol) ==
    {r \in rows : /\ r.symbol = symbol
                  /\ \A o \in rows : o.symbol = symbol =>
                        IsoLeq(o.timestamp, r.timestamp)}

SecondsPerDay == 86400

\* datetime.combine(target.date(), datetime.min.time()), with the tzinfo of
\* the target (quote_storage.py lines 144-151)
DayStart(target) ==
    Stamp((target.local \div SecondsPerDay) * SecondsPerDay, target.aware,
          target.off)

\* datetime.combine(target.date(), datetime.max.time()) is 23:59:59.999999;
\* its text is above the text of every whole-second value of that day and
\* below every value of the next day, whatever the suffixes
BelowDayEnd(dt, target) ==
    dt.local < (target.local \div SecondsPerDay + 1) * SecondsPerDay

\* the candidates of get_quote_closest_timestamp's SELECT
DayRows(symbol, target) ==
    LET inDay == {r \in rows : /\ r.symbol = symbol
                               /\ IsoLeq(DayStart(target), r.timestamp)
                               /\ BelowDayEnd(r.timestamp, target)}
    IN  {r \in inDay : \A o \in inDay : IsoLeq(o.timestamp, r.timestamp)}

\* shared/storage.py lines 117-126: WHERE symbol = ? AND timestamp = ?
ExactRows(symbol, target) ==
    {r \in rows : r.symbol = symbol /\ IsoEq(r.timestamp, target)}

\* the rows one get_quote(symbol, timestamp) call may fetch; `live` is
\* "timestamp is None"; impl is "storage" (storage/quote_storage.py) or
\* "shared" (shared/storage.py)
Candidates(impl, symbol, live, target) ==
    IF live THEN LatestRows(symbol)
    ELSE IF impl = "storage" THEN DayRows(symbol, target)
    ELSE ExactRows(symbol, target)

\* the results get_quote may return: no row gives None; a row gives its
\* Quote, unless the Quote model of that implementation rejects the price
GetQuoteResults(impl, symbol, live, target) ==
    LET cands == Candidates(impl, symbol, live, target)
    IN  IF cands = {} THEN {NotFoundResult}
        ELSE {IF ModelAccepts(impl, r.price) THEN Found(RowQuote(r))
              ELSE Raised : r \in cands}

\* is_quote_expired (quote_storage.py lines 195-202) and the inline test of
\* shared/storage.py lines 149-164
is_quote_expired_geq(quote, clock) ==
    clock - Instant(quote.timestamp) >= QUOTE_FRESHNESS_SECONDS
is_quote_expired(quote, clock) ==
    clock - Instant(quote.timestamp) > QUOTE_FRESHNESS_SECONDS

ERROR_QUOTES_OUTDATED == "quotes_outdated"

RECURSIVE GCD(_, _)
GCD(a, b) == IF b = 0 THEN a ELSE GCD(b, a % b)

\* a float: the exact quotient num / den (den > 0) in lowest terms
Ratio(num, den) ==
    LET g == GCD(num, den)
    IN  [num |-> num \div g, den |-> den \div g]

NoRatio == Ratio(0, 1)

RateInverted(from_quote, to_quote) == Ratio(to_quote.price, from_quote.price)
Rate(from_quote, to_quote) == Ratio(from_quote.price, to_quote.price)

RateInfo(kind, error, rate, from_quote, to_quote) ==
    [kind |-> kind, error |-> error, rate |-> rate,
     from_quote |-> from_quote, to_quote |-> to_quote]

NoRateInfo == RateInfo("pending", "", NoRatio, NoQuote, NoQuote)

FreshnessAppliesAlways(live) == TRUE
FreshnessApplies(live) == live

AbsentEither(from_found, to_found) ==
    from_found.kind = "none" \/ to_found.kind = "none"

\* get_conversion_rate after its two lookups (quote_storage.py lines
\* 182-193, shared/storage.py lines 144-171); "raised" stands for an
\* exception leaving the method
ConversionResultFreshnessFirst(from_found, to_found, live, clock) ==
    IF from_found.kind = "raised" \/ to_found.kind = "raised"
    THEN RateInfo("raised", "", NoRatio, NoQuote, NoQuote)
    ELSE IF /\ FreshnessApplies(live)
            /\ \/ /\ from_found.kind = "quote"
                  /\ is_quote_expired(from_found.quote, clock)
               \/ /\ to_found.kind = "quote"
                  /\ is_quote_expired(to_found.quote, clock)
    THEN RateInfo("error", ERROR_QUOTES_OUTDATED, NoRatio, NoQuote, NoQuote)
    ELSE IF AbsentEither(from_found, to_found)
    THEN RateInfo("none", "", NoRatio, NoQuote, NoQuote)
    ELSE IF to_found.quote.price = 0
    THEN RateInfo("raised", "", NoRatio, NoQuote, NoQuote)
    ELSE RateInfo("rate", "", Rate(from_found.quote, to_found.quote),
                  from_found.quote, to_found.quote)
ConversionResult(from_found, to_found, live, clock) ==
    IF from_found.kind = "raised" \/ to_found.kind = "raised"
    THEN RateInfo("raised", "", NoRatio, NoQuote, NoQuote)
    ELSE IF AbsentEither(from_found, to_found)
    THEN RateInfo("none", "", NoRatio, NoQuote, NoQuote)
    ELSE IF /\ FreshnessApplies(live)
            /\ \/ is_quote_expired(from_found.quote, clock)
               \/ is_quote_expired(to_found.quote, clock)
    THEN RateInfo("error", ERROR_QUOTES_OUTDATED, NoRatio, NoQuote, NoQuote)
    ELSE IF to_found.quote.price = 0
    THEN RateInfo("raised", "", NoRatio, NoQuote, NoQuote)
    ELSE RateInfo("rate", "", Rate(from_found.quote, to_found.quote),
                  from_found.quote, to_found.quote)

----------------------------------------------------------------------------
(* Bounds and inputs of the store *)

MaxRows == 2            \* rows ever inserted into the table
MaxElapsed == 61        \* seconds the clock may advance

TickSteps == {60, 61}

BTCUSDT == <<"B","T","C","U","S","D","T">>
ETHUSDT == <<"E","T","H","U","S","D","T">>

StoreSymbols == {BTCUSDT, ETHUSDT}

\* the prices of conftest.py sample_quotes
PriceOf(symbol) == IF symbol = BTCUSDT THEN 45000 ELSE 3000

Amounts == {1, 2}

QUOTE_RETENTION_DAYS == 7

OneHour == 3600

\* timestamps a caller of save_quotes gives its quotes: the current time as
\* an aware UTC value, as a naive value, and as an aware value at +01:00
StampChoices(clock) ==
    {NowUTC(clock), Stamp(clock, FALSE, 0), Stamp(clock + OneHour, TRUE, OneHour)}

\* quotes a caller can build: the sample prices at any of the timestamps,
\* and one quote with price 0, which only shared/models.py Quote accepts
DirectQuotes(model, clock) ==
    {q \in {MkQuote(sym, PriceOf(sym), ts) :
                sym \in StoreSymbols, ts \in StampChoices(clock)}
           \cup {MkQuote(ETHUSDT, 0, NowUTC(clock))} :
        ModelAccepts(model, q.price)}

\* batches passed to save_quotes: empty, one quote, the pair of conftest.py
\* sample_quotes, or the 8 days old quote of test_cleanup_old_quotes
Batches(model, clock) ==
    {<<>>}
    \cup {<<q>> : q \in DirectQuotes(model, clock)}
    \cup {<<MkQuote(BTCUSDT, 45000, NowUTC(clock)),
            MkQuote(ETHUSDT, 3000, NowUTC(clock))>>}
    \cup {<<MkQuote(BTCUSDT, 45000,
                    NowUTC(clock - (QUOTE_RETENTION_DAYS + 1) * SecondsPerDay))>>}

\* the query parameters from / to of a /convert request
RequestSymbols ==
    {BTCUSDT, <<"e","t","h","u","s","d","t">>, <<"E","T","H","B","T","C">>}

\* the timestamp query parameter: absent, empty, not ISO-8601, or ISO text
\* that fromisoformat parses to `value`
TsParam(kind, value) == [kind |-> kind, value |-> value]

TimestampParams ==
    {TsParam("absent", NoStamp), TsParam("empty", NoStamp),
     TsParam("invalid", NoStamp), TsParam("iso", Stamp(T0, TRUE, 0))}

\* targets of direct get_conversion_rate calls
DirectTargets ==
    {TsParam("absent", NoStamp), TsParam("iso", Stamp(T0, TRUE, 0))}

----------------------------------------------------------------------------
(* The request: a /convert call, or a direct get_conversion_rate call *)

Response(status, error, rate, converted_amount, timestamp) ==
    [status |-> status, error |-> error, rate |-> rate,
     converted_amount |-> converted_amount, timestamp |-> timestamp]

NoResponse == Response(0, "", NoRatio, NoRatio, NoStamp)

ErrorResponse(status, error) == Response(status, error, NoRatio, NoRatio, NoStamp)

\* the lifecycle record: the ingester's phase ("new", "running", "stopping",
\* "init_failed", "exited"), its three tasks ("running" or "done"), what
\* ended the run ("none", "cancel", "error", "init_error"), its connection
\* ("none", "open", "closed"), the rows inserted on that connection and not
\* committed, and the API's phase ("new", "up", "failed", "stopped") and
\* connection
Service(phase, task, cause, conn, api, api_conn) ==
    [phase |-> phase, http |-> task, save |-> task, cleanup |-> task,
     cause |-> cause, conn |-> conn, uncommitted |-> <<>>,
     api |-> api, api_conn |-> api_conn]

\* both services up: after initialize() of each, the three tasks created
ServiceRunning == Service("running", "running", "none", "open", "up", "open")

\* before start() and before the lifespan's startup
ServiceNew == Service("new", "none", "none", "none", "new", "none")

IdleRequest ==
    [pc |-> "idle", via |-> "none", impl |-> "none", amount |-> 0,
     from_symbol |-> <<>>, to_symbol |-> <<>>, live |-> TRUE,
     target |-> NoStamp, from_found |-> NotCalled,
     to_found |-> NotCalled, checked_at |-> 0,
     rate_info |-> NoRateInfo, response |-> NoResponse]

StoreIdle ==
    /\ rows = {}
    /\ nextId = 1
    /\ now = T0
    /\ req = IdleRequest
    /\ quotes_buffer = <<>>
    /\ last_poll = 0
    /\ flush = [pc |-> "sleep", batch |-> <<>>]
    /\ svc = ServiceRunning

\* convert_currency up to its first store access (service.py lines 79-122):
\* normalise, check the pair, parse the timestamp
ConvertStartParsingLate(amount, from_currency, to_currency, timestamp) ==
    /\ req.pc = "idle"
    /\ LET from_symbol == Upper(from_currency)
           to_symbol == Upper(to_currency)
           started == [IdleRequest EXCEPT !.via = "endpoint",
                          !.impl = "shared", !.amount = amount,
                          !.from_symbol = from_symbol,
                          !.to_symbol = to_symbol]
       IN  req' =
             IF ~is_direct_pair(from_symbol, to_symbol)
             THEN [started EXCEPT !.pc = "done",
                     !.response = ErrorResponse(400, "unsupported_conversion")]
             ELSE [started EXCEPT !.pc = "lookup_from",
                     !.live = (timestamp.kind # "iso"),
                     !.target = timestamp.value]
    /\ UNCHANGED <<rows, nextId, now, harness, vvars, ingestvars>>
ConvertStart(amount, from_currency, to_currency, timestamp) ==
    /\ req.pc = "idle"
    /\ LET from_symbol == Upper(from_currency)
           to_symbol == Upper(to_currency)
           started == [IdleRequest EXCEPT !.via = "endpoint",
                          !.impl = "shared", !.amount = amount,
                          !.from_symbol = from_symbol,
                          !.to_symbol = to_symbol]
       IN  req' =
             IF ~is_direct_pair(from_symbol, to_symbol)
             THEN [started EXCEPT !.pc = "done",
                     !.response = ErrorResponse(400, "unsupported_conversion")]
             ELSE IF timestamp.kind = "invalid"
             THEN [started EXCEPT !.pc = "done",
                     !.response = ErrorResponse(400, "invalid_timestamp")]
             ELSE [started EXCEPT !.pc = "lookup_from",
                     !.live = (timestamp.kind # "iso"),
                     !.target = timestamp.value]
    /\ UNCHANGED <<rows, nextId, now, harness, vvars, ingestvars>>

\* a direct call get_conversion_rate(from_symbol, to_symbol, timestamp) on
\* the QuoteStorage of storage/quote_storage.py or of shared/storage.py
DirectStart(impl, from_symbol, to_symbol, timestamp) ==
    /\ req.pc = "idle"
    /\ impl = harness
    /\ req' = [IdleRequest EXCEPT !.pc = "lookup_from", !.via = "direct",
                  !.impl = impl, !.from_symbol = from_symbol,
                  !.to_symbol = to_symbol,
                  !.live = (timestamp.kind # "iso"),
                  !.target = timestamp.value]
    /\ UNCHANGED <<rows, nextId, now, harness, vvars, ingestvars>>

\* what convert_currency makes of the value or exception of
\* get_conversion_rate (service.py lines 120-166).  Its HTTPException with
\* status 404 is answered by the handler registered for status 404
\* (lines 185-193), which replaces the detail by error "not_found".
not_found_handler(detail) == ErrorResponse(404, "not_found")
EndpointNotFound(amount, rate_info) ==
    not_found_handler(ErrorResponse(404, "quotes_not_found"))
EndpointSuccess(amount, rate_info) ==
    Response(200, "", rate_info.rate,
             Ratio(amount * rate_info.rate.num, rate_info.rate.den),
             rate_info.from_quote.timestamp)

EndpointResponseUncaught(amount, rate_info) ==
    CASE rate_info.kind = "raised" -> NoResponse
      [] rate_info.kind = "none" -> EndpointNotFound(amount, rate_info)
      [] rate_info.kind = "error" -> ErrorResponse(400, rate_info.error)
      [] OTHER -> EndpointSuccess(amount, rate_info)
EndpointResponse(amount, rate_info) ==
    CASE rate_info.kind = "raised" -> ErrorResponse(500, "internal_error")
      [] rate_info.kind = "none" -> EndpointNotFound(amount, rate_info)
      [] rate_info.kind = "error" -> ErrorResponse(400, rate_info.error)
      [] OTHER -> EndpointSuccess(amount, rate_info)

\* the method has returned or raised: the caller gets its answer
Finish(r, from_found, to_found) ==
    LET info == ConversionResult(from_found, to_found, r.live, now)
    IN  [r EXCEPT !.pc = "done", !.from_found = from_found,
                  !.to_found = to_found, !.checked_at = now,
                  !.rate_info = info,
                  !.response = IF r.via = "endpoint"
                               THEN EndpointResponse(r.amount, info)
                               ELSE NoResponse]

\* from_quote = await self.get_quote(from_symbol, timestamp)
LookupFrom ==
    /\ req.pc = "lookup_from"
    /\ \E found \in GetQuoteResults(req.impl, req.from_symbol, req.live,
                                    req.target) :
         req' = IF found.kind = "raised"
                THEN Finish(req, found, NotCalled)
                ELSE [req EXCEPT !.pc = "lookup_to", !.from_found = found]
    /\ UNCHANGED <<rows, nextId, now, harness, vvars, ingestvars>>

\* to_quote = await self.get_quote(to_symbol, timestamp), and the rest of
\* get_conversion_rate and of its caller, which have no suspension point
LookupTo ==
    /\ req.pc = "lookup_to"
    /\ \E found \in GetQuoteResults(req.impl, req.to_symbol, req.live,
                                    req.target) :
         req' = Finish(req, req.from_found, found)
    /\ UNCHANGED <<rows, nextId, now, harness, vvars, ingestvars>>

\* the answer has been delivered; the next request may start
RequestDone ==
    /\ req.pc = "done"
    /\ req' = IdleRequest
    /\ UNCHANGED <<rows, nextId, now, harness, vvars, ingestvars>>

----------------------------------------------------------------------------
(* validators.py: validate_timestamp *)

\* A text is the sequence of its parts: date, separator, time, suffix; the
\* empty string is <<>>.  An argument or a result is None, a str, a
\* datetime, or the ValueError that was raised.
TsNone == [kind |-> "None", text |-> <<>>, value |-> NoStamp]
TsStr(text) == [kind |-> "str", text |-> text, value |-> NoStamp]
TsDatetime(value) == [kind |-> "datetime", text |-> <<>>, value |-> value]
TsValueError(message) ==
    [kind |-> "ValueError", text |-> <<message>>, value |-> NoStamp]

ISO_FORMAT_MESSAGE ==
    "Timestamp must be in ISO format (e.g., '2023-01-01T12:00:00Z')"

\* str.replace(old, new): every occurrence
StrReplace(text, old, new) ==
    [i \in 1..Len(text) |-> IF text[i] = old THEN new ELSE text[i]]

\* the dates and times of day that exist, in seconds
DateSeconds(part) ==
    CASE part = "1970-01-11" -> 864000
      [] OTHER -> -1
TimeSeconds(part) ==
    CASE part = "12:00:00" -> 43200
      [] part = "00:00:00" -> 0
      [] OTHER -> -1

\* the one-character strings among the parts
OneCharacter == {"T", " ", "x", "Z", "z"}

\* "+HH:MM" after a time of day is an offset; straight after a date it is
\* the separator "+" and the time of day HH:MM; in seconds
OffsetSeconds(part) ==
    CASE part = "+00:00" -> 0
      [] part = "Z" -> 0
      [] part = "+01:00" -> 3600
      [] OTHER -> -1

\* datetime.fromisoformat of Python 3.11 and later: a date, then optionally
\* any single character and a time of day, then optionally an offset
fromisoformat(text) ==
    IF Len(text) \notin 1..4 THEN TsValueError("Invalid isoformat string")
    ELSE IF DateSeconds(text[1]) < 0
    THEN TsValueError("Invalid isoformat string")
    ELSE IF Len(text) = 1 THEN TsDatetime(Stamp(DateSeconds(text[1]), FALSE, 0))
    ELSE IF Len(text) = 2
    THEN IF text[2] \in {"+00:00", "+01:00"}
         THEN TsDatetime(Stamp(DateSeconds(text[1]) + OffsetSeconds(text[2]),
                               FALSE, 0))
         ELSE TsValueError("Invalid isoformat string")
    ELSE IF text[2] \notin OneCharacter \/ TimeSeconds(text[3]) < 0
    THEN TsValueError("Invalid isoformat string")
    ELSE IF Len(text) = 3
    THEN TsDatetime(Stamp(DateSeconds(text[1]) + TimeSeconds(text[3]), FALSE, 0))
    ELSE IF OffsetSeconds(text[4]) < 0
    THEN TsValueError("Invalid isoformat string")
    ELSE TsDatetime(Stamp(DateSeconds(text[1]) + TimeSeconds(text[3]), TRUE,
                          OffsetSeconds(text[4])))

\* validate_timestamp(v) (validators.py lines 47-60)
validate_timestamp(v) ==
    IF v.kind = "None" \/ (v.kind = "str" /\ v.text = <<>>) THEN TsNone
    ELSE IF v.kind = "datetime" THEN v
    ELSE LET parsed == fromisoformat(StrReplace(v.text, "Z", "+00:00"))
         IN  IF parsed.kind = "ValueError"
             THEN TsValueError(ISO_FORMAT_MESSAGE)
             ELSE parsed

\* no call of validate_timestamp is under way
TimestampIdle ==
    [pc |-> "off", v |-> TsNone, result |-> TsNone, again |-> TsNone]

----------------------------------------------------------------------------
(* One QuoteStorage instance and the coroutines that call it concurrently *)

\* the coroutines that call methods of the instance in one event loop
Callers == {1, 2}

\* self._connection is None
NoConnection == 0

\* QuoteStorage.__init__: no connection; `open` is the set of connections
\* the instance has opened and that are not closed, `opened` their count,
\* pc[c] where caller c is suspended, closing[c] the connection whose
\* close() caller c awaits
StorageNew(impl) ==
    [impl |-> impl, connection |-> NoConnection, open |-> {}, opened |-> 0,
     pc |-> [c \in Callers |-> "idle"],
     closing |-> [c \in Callers |-> NoConnection]]

\* no instance is under test
StorageIdle == StorageNew("none")

\* connect(database_path) returns a new open connection, which
\* _get_connection assigns to self._connection
Connected(s) ==
    [s EXCEPT !.connection = s.opened + 1,
              !.open = s.open \cup {s.opened + 1},
              !.opened = s.opened + 1]

\* _get_connection up to its first suspension (quote_storage.py lines
\* 34-39, shared/storage.py lines 29-36): return the connection there is;
\* else sqlite3.connect at once, or await aiosqlite.connect
GetConnection(c) ==
    /\ qs.pc[c] = "idle"
    /\ qs' = IF qs.connection # NoConnection THEN qs
             ELSE IF qs.impl = "shared"
             THEN IF qs.opened < MaxConnections THEN Connected(qs) ELSE qs
             ELSE [qs EXCEPT !.pc[c] = "connecting"]
    /\ UNCHANGED <<vFrom, vTo, vPc, vResult, tv, storevars, ingestvars>>

\* aiosqlite.connect has completed: assign self._connection and return
ConnectDone(c) ==
    /\ qs.pc[c] = "connecting"
    /\ qs.opened < MaxConnections
    /\ qs' = [Connected(qs) EXCEPT !.pc[c] = "idle"]
    /\ UNCHANGED <<vFrom, vTo, vPc, vResult, tv, storevars, ingestvars>>

\* the connection is closed and self._connection = None
Disconnected(s, connection) ==
    [s EXCEPT !.open = s.open \ {connection}, !.connection = NoConnection]

\* close() up to its first suspension (quote_storage.py lines 224-228,
\* shared/storage.py lines 194-198)
Close(c) ==
    /\ qs.pc[c] = "idle"
    /\ qs' = IF qs.connection = NoConnection THEN qs
             ELSE IF qs.impl = "shared" THEN Disconnected(qs, qs.connection)
             ELSE [qs EXCEPT !.pc[c] = "closing",
                             !.closing[c] = qs.connection]
    /\ UNCHANGED <<vFrom, vTo, vPc, vResult, tv, storevars, ingestvars>>

\* await self._connection.close() has completed: self._connection = None
CloseDone(c) ==
    /\ qs.pc[c] = "closing"
    /\ qs' = [Disconnected(qs, qs.closing[c]) EXCEPT
                 !.pc[c] = "idle", !.closing[c] = NoConnection]
    /\ UNCHANGED <<vFrom, vTo, vPc, vResult, tv, storevars, ingestvars>>

----------------------------------------------------------------------------
(* Store operations called directly, and the clock *)

\* save_quotes(quotes) (quote_storage.py lines 61-81, shared/storage.py
\* lines 59-85)
SaveQuotesUnique(quotes) ==
    /\ nextId - 1 + Len(quotes) <= MaxRows
    /\ IF quotes = <<>>
       THEN UNCHANGED <<rows, nextId>>
       ELSE /\ rows' = rows \cup
                    {n \in InsertAll(quotes, nextId) :
                        ~\E r \in rows : /\ r.symbol = n.symbol
                                         /\ r.timestamp = n.timestamp}
            /\ nextId' = nextId + Len(quotes)
SaveQuotesUpsert(quotes) ==
    /\ nextId - 1 + Len(quotes) <= MaxRows
    /\ IF quotes = <<>>
       THEN UNCHANGED <<rows, nextId>>
       ELSE /\ rows' = {r \in rows : \A i \in 1..Len(quotes) :
                                        quotes[i].symbol # r.symbol}
                        \cup InsertAll(quotes, nextId)
            /\ nextId' = nextId + Len(quotes)
SaveQuotes(quotes) ==
    /\ nextId - 1 + Len(quotes) <= MaxRows
    /\ IF quotes = <<>>
       THEN UNCHANGED <<rows, nextId>>
       ELSE /\ rows' = rows \cup InsertAll(quotes, nextId)
            /\ nextId' = nextId + Len(quotes)

\* a direct caller builds its quotes with the Quote model of storage/models.py
\* or, when its QuoteStorage is the one of shared/storage.py, also with the
\* Quote of shared/models.py that save_quotes of that module is typed with
DirectSave ==
    /\ \E model \in {"storage", "shared"} :
         /\ harness = "storage" => model = "storage"
         /\ \E quotes \in Batches(model, now) : SaveQuotes(quotes)
    /\ UNCHANGED <<now, req, harness, vvars, ingestvars>>

\* cleanup_old_quotes(retention_days): DELETE ... WHERE timestamp < ? with
\* the text of datetime.now(UTC) - timedelta(days=retention_days)
CleanupOldQuotes(retention_days) ==
    LET cutoff_date == NowUTC(now - retention_days * SecondsPerDay)
    IN  /\ rows' = {r \in rows : ~IsoLess(r.timestamp, cutoff_date)}
        /\ UNCHANGED nextId

DirectCleanup ==
    /\ CleanupOldQuotes(QUOTE_RETENTION_DAYS)
    /\ UNCHANGED <<now, req, harness, vvars, ingestvars>>

Tick ==
    /\ \E d \in TickSteps :
         /\ now + d <= T0 + MaxElapsed
         /\ now' = now + d
    /\ UNCHANGED <<rows, nextId, req, harness, vvars, ingestvars>>

ValidatorsOff ==
    /\ vFrom = <<>>
    /\ vTo = <<>>
    /\ vPc = "off"
    /\ vResult = [ok |-> FALSE, status_code |-> 0, error |-> "",
                  message |-> [from |-> <<>>, to |-> <<>>], matched |-> 0]
    /\ tv = TimestampIdle
    /\ qs = StorageIdle

StoreInit ==
    /\ StoreIdle
    /\ harness \in {"storage", "shared"}
    /\ ValidatorsOff

StoreNext ==
    \/ \E amount \in Amounts, f \in RequestSymbols, t \in RequestSymbols,
          ts \in TimestampParams : ConvertStart(amount, f, t, ts)
    \/ \E impl \in {"storage", "shared"}, f \in StoreSymbols,
          t \in StoreSymbols, ts \in DirectTargets : DirectStart(impl, f, t, ts)
    \/ LookupFrom
    \/ LookupTo
    \/ RequestDone
    \/ DirectSave
    \/ DirectCleanup
    \/ Tick

SpecStore == StoreInit /\ [][StoreNext]_vars

----------------------------------------------------------------------------
(* Properties of get_conversion_rate and of the /convert endpoint *)

\* seconds between the instant of a quote, a naive timestamp read as UTC,
\* and the time at which the request was resolved
AgeAtCheck(quote) ==
    req.checked_at - quote.timestamp.local
        + (IF quote.timestamp.aware THEN quote.timestamp.off ELSE 0)

BothFound == req.from_found.kind = "quote" /\ req.to_found.kind = "quote"

IsOutdated(info) ==
    /\ info.kind = "error"
    /\ info.error = "quotes_outdated"
    /\ info.rate = NoRatio

C7_HistoricalNeverOutdated ==
    (req.pc = "done" /\ ~req.live) =>
        /\ req.rate_info.kind # "error"
        /\ (BothFound /\ req.impl = "storage") => req.rate_info.kind = "rate"

C7_Witness ==
    /\ req.pc = "done"
    /\ ~req.live
    /\ req.impl = "storage"
    /\ BothFound
    /\ AgeAtCheck(req.from_found.quote) > 60
    /\ req.rate_info.kind = "rate"

\* C8: when the from-lookup or the to-lookup finds no quote, live or
\* historical, get_conversion_rate returns None (no rate, no error record)
\* and the endpoint answers 404 quotes_not_found, never a success.
C8_AbsentQuoteIsNotFound ==
    (/\ req.pc = "done"
     /\ \/ req.from_found.kind = "none"
        \/ req.to_found.kind = "none") =>
        /\ req.rate_info = RateInfo("none", "", NoRatio, NoQuote, NoQuote)
        /\ req.via = "endpoint" =>
              /\ req.response.status = 404
              /\ req.response.error = "quotes_not_found"

\* C9: on success the rate is from_quote.price / to_quote.price and comes
\* with the two quotes that were looked up; the endpoint answers with
\* amount x rate and the timestamp of the from-quote; 45000 / 3000 is 15
\* and converts amount 1 to 15.
C9_RateIsPriceQuotient ==
    (req.pc = "done" /\ req.rate_info.kind = "rate") =>
        LET info == req.rate_info
            fq == req.from_found.quote
            tq == req.to_found.quote
        IN  /\ BothFound
            /\ info.from_quote = fq
            /\ info.to_quote = tq
            /\ info.rate.num * tq.price = fq.price * info.rate.den
            /\ (fq.price = 45000 /\ tq.price = 3000) =>
                  info.rate.num = 15 * info.rate.den
            /\ req.via = "endpoint" =>
                  /\ req.response.status = 200
                  /\ req.response.rate = info.rate
                  /\ req.response.converted_amount.num * tq.price =
                        req.amount * fq.price * req.response.converted_amount.den
                  /\ req.response.timestamp = fq.timestamp
                  /\ (fq.price = 45000 /\ tq.price = 3000 /\ req.amount = 1) =>
                        req.response.converted_amount.num =
                            15 * req.response.converted_amount.den

C9_Witness ==
    /\ req.pc = "done"
    /\ req.via = "endpoint"
    /\ req.rate_info.kind = "rate"
    /\ req.amount = 1
    /\ req.from_found.quote.price = 45000
    /\ req.to_found.quote.price = 3000
    /\ req.from_found.quote.timestamp # req.to_found.quote.timestamp
    /\ req.response.converted_amount.num = 15 * req.response.converted_amount.den

\* C31: get_conversion_rate never fails with a division by zero: when both
\* lookups have returned a quote, the method does not raise, because no
\* to-quote with price 0 can come out of the store.
C31_NoDivisionByZero ==
    (req.pc = "done" /\ BothFound) => req.rate_info.kind # "raised"

\* C35: absence is decided before freshness: a live request for which one
\* symbol has no quote and the other only a quote older than 60 seconds
\* gets NotFound, not Outdated.
C35_AbsenceBeforeFreshness ==
    (/\ req.pc = "done"
     /\ req.live
     /\ \/ /\ req.from_found.kind = "none"
           /\ req.to_found.kind = "quote"
           /\ AgeAtCheck(req.to_found.quote) > 60
        \/ /\ req.to_found.kind = "none"
           /\ req.from_found.kind = "quote"
           /\ AgeAtCheck(req.from_found.quote) > 60) =>
        /\ req.rate_info.kind = "none"
        /\ ~IsOutdated(req.rate_info)

C35_Witness ==
    /\ req.pc = "done"
    /\ req.live
    /\ req.to_found.kind = "none"
    /\ req.from_found.kind = "quote"
    /\ AgeAtCheck(req.from_found.quote) > 60
    /\ req.rate_info.kind = "none"

----------------------------------------------------------------------------
(* Properties of the validation and error handling of /convert *)

\* the request was rejected by the pair check or by the timestamp parser
Rejected ==
    /\ req.pc = "done"
    /\ req.via = "endpoint"
    /\ req.response.error \in {"unsupported_conversion", "invalid_timestamp"}

\* C27: a /convert request with an unsupported pair or an unparsable
\* timestamp is rejected at once, whatever the store contains: no quote
\* lookup is made for it, the rows are left as they were, and the error
\* code follows from the parameters alone.
C27_RejectedBeforeStoreAccess ==
    /\ [][\A amount \in Amounts, f \in RequestSymbols, t \in RequestSymbols,
             ts \in TimestampParams :
            (/\ ConvertStart(amount, f, t, ts)
             /\ \/ ~is_direct_pair(Upper(f), Upper(t))
                \/ ts.kind = "invalid")
            => /\ req'.pc = "done"
               /\ req'.from_found = NotCalled
               /\ req'.to_found = NotCalled
               /\ req'.rate_info = NoRateInfo
               /\ rows' = rows
               /\ req'.response.error =
                     IF ~is_direct_pair(Upper(f), Upper(t))
                     THEN "unsupported_conversion"
                     ELSE "invalid_timestamp"]_vars
    /\ [](Rejected => /\ req.from_found = NotCalled
                      /\ req.to_found = NotCalled
                      /\ req.checked_at = 0)

\* a request with an unparsable timestamp was rejected on a store that
\* holds quotes
C27_Witness ==
    /\ Rejected
    /\ req.response.error = "invalid_timestamp"
    /\ rows # {}

\* C28: every /convert request rejected for its pair or for its timestamp
\* gets status 422.
C28_RejectionsHaveStatus422 ==
    Rejected => req.response.status = 422

\* C29: an exception raised while a /convert request is resolved becomes
\* the one 500 internal_error response, the same for every exception; the
\* request always gets a response, and a success only for a rate.
C29_ExceptionsBecomeInternalError ==
    (req.pc = "done" /\ req.via = "endpoint") =>
        /\ req.rate_info.kind = "raised" =>
              req.response = ErrorResponse(500, "internal_error")
        /\ req.response # NoResponse
        /\ req.response.status = 200 => req.rate_info.kind = "rate"

C29_Witness ==
    /\ req.pc = "done"
    /\ req.via = "endpoint"
    /\ req.rate_info.kind = "raised"
    /\ req.response.status = 500

\* str.lower and str.swapcase, for the letters the inputs are drawn from
LowerChar(c) ==
    CASE c = "B" -> "b"
      [] c = "T" -> "t"
      [] c = "C" -> "c"
      [] c = "U" -> "u"
      [] c = "S" -> "s"
      [] c = "D" -> "d"
      [] c = "E" -> "e"
      [] c = "H" -> "h"
      [] OTHER -> c

Lower(s) == [i \in 1..Len(s) |-> LowerChar(s[i])]

SwapCase(s) ==
    [i \in 1..Len(s) |-> IF LowerChar(s[i]) # s[i] THEN LowerChar(s[i])
                         ELSE UpperChar(s[i])]

\* C30: the outcome of /convert is the same for every spelling of the two
\* symbols in upper and lower case: a request started with one spelling
\* is in the state (validation result, symbols to look up, symbols of the
\* response) in which the lower-case and the swapped-case spelling put it.
C30_CaseInsensitiveSymbols ==
    [][\A amount \in Amounts, f \in RequestSymbols, t \in RequestSymbols,
          ts \in TimestampParams :
         ConvertStart(amount, f, t, ts) =>
            /\ ConvertStart(amount, Lower(f), Lower(t), ts)
            /\ ConvertStart(amount, SwapCase(f), Lower(t), ts)
            /\ ConvertStart(amount, Lower(f), SwapCase(t), ts)]_vars

\* a request spelled in lower case found the quote stored in upper case
C30_Witness ==
    /\ req.pc = "done"
    /\ req.via = "endpoint"
    /\ req.from_symbol = ETHUSDT
    /\ req.from_found.kind = "quote"

----------------------------------------------------------------------------
(* quote_consumer/service.py: the ingester *)

http_polling_interval == 10

\* one item of the ticker response: a JSON object that may lack "symbol" or
\* "price"; price_kind tells what float(data["price"]) does with the value:
\* "number" converts to `price`, "text" raises ValueError, "null" (JSON
\* null) raises TypeError
Entry(has_symbol, symbol, price_kind, price) ==
    [has_symbol |-> has_symbol, symbol |-> symbol, price_kind |-> price_kind,
     price |-> price]

\* _parse_binance_rest_ticker (lines 82-97): a Quote, None, or an exception
\* that its `except (ValueError, KeyError)` does not catch
parse_binance_rest_ticker(data, timestamp) ==
    IF ~data.has_symbol \/ data.price_kind = "missing" THEN NotFoundResult
    ELSE IF data.price_kind = "text" THEN NotFoundResult
    ELSE IF data.price_kind = "null" THEN Raised
    ELSE IF Upper(data.symbol) # <<>> /\ data.price > 0
    THEN Found(MkQuote(Upper(data.symbol), data.price, timestamp))
    ELSE NotFoundResult

RECURSIVE ParsedQuotes(_, _)
\* the list comprehension of lines 69-73, when no item raises
ParsedQuotes(data, current_time) ==
    IF data = <<>> THEN <<>>
    ELSE LET parsed == parse_binance_rest_ticker(Head(data), current_time)
             rest == ParsedQuotes(Tail(data), current_time)
         IN  IF parsed.kind = "quote" THEN <<parsed.quote>> \o rest ELSE rest

\* _fetch_quotes_http (lines 56-80): `failed` is a network or HTTP error;
\* any exception inside the try block gives the empty list
FetchQuotesHttpIgnoringFailure(failed, data, clock) ==
    ParsedQuotes(data, NowUTC(clock))
fetch_quotes_http(failed, data, clock) ==
    IF failed THEN <<>>
    ELSE IF \E i \in 1..Len(data) :
               parse_binance_rest_ticker(data[i], NowUTC(clock)).kind = "raised"
    THEN <<>>
    ELSE ParsedQuotes(data, NowUTC(clock))

GoodBTC == Entry(TRUE, BTCUSDT, "number", 45000)
LowerBTC == Entry(TRUE, <<"b","t","c","u","s","d","t">>, "number", 44000)
GoodETH == Entry(TRUE, ETHUSDT, "number", 3000)

\* ticker responses: every symbol at most once
FeedResponses ==
    { <<GoodBTC>>, <<LowerBTC>>, <<GoodBTC, GoodETH>>,
      <<Entry(TRUE, ETHUSDT, "number", 0), GoodBTC>>,
      <<Entry(TRUE, ETHUSDT, "text", 0), GoodBTC>>,
      <<Entry(TRUE, ETHUSDT, "null", 0), GoodBTC>>,
      <<Entry(FALSE, <<>>, "number", 3000), GoodETH>>,
      <<Entry(TRUE, ETHUSDT, "missing", 0)>> }

\* quotes the ingester holds or has stored
QuotesInSystem == Len(quotes_buffer) + Len(flush.batch) + (nextId - 1)

\* one round of the loop of _http_handler (lines 123-138): fetch, extend
\* the buffer, sleep for the polling interval
Poll(failed, data) ==
    /\ last_poll = 0 \/ now >= last_poll + http_polling_interval
    /\ LET quotes == fetch_quotes_http(failed, data, now)
       IN  /\ QuotesInSystem + Len(quotes) <= MaxRows
           /\ quotes_buffer' = quotes_buffer \o quotes
    /\ last_poll' = now
    /\ UNCHANGED <<flush, svc, storevars, vvars>>

\* _flush_quotes_buffer up to its await (lines 155-161): copy the buffer,
\* return if the copy is empty, else clear the buffer
FlushTakeKeeping ==
    /\ flush.pc = "sleep"
    /\ LET quotes_to_save == quotes_buffer
       IN  IF quotes_to_save = <<>>
           THEN UNCHANGED <<quotes_buffer, flush>>
           ELSE /\ quotes_buffer' = quotes_buffer
                /\ flush' = [pc |-> "saving", batch |-> quotes_to_save]
    /\ UNCHANGED <<last_poll, svc, storevars, vvars>>
FlushTake ==
    /\ flush.pc = "sleep"
    /\ LET quotes_to_save == quotes_buffer
       IN  IF quotes_to_save = <<>>
           THEN UNCHANGED <<quotes_buffer, flush>>
           ELSE /\ quotes_buffer' = <<>>
                /\ flush' = [pc |-> "saving", batch |-> quotes_to_save]
    /\ UNCHANGED <<last_poll, svc, storevars, vvars>>

\* await self.storage.save_quotes(quotes_to_save) completes
FlushSaveClearing ==
    /\ flush.pc = "saving"
    /\ rows' = rows \cup InsertAll(flush.batch, nextId)
    /\ nextId' = nextId + Len(flush.batch)
    /\ flush' = [pc |-> "sleep", batch |-> <<>>]
    /\ quotes_buffer' = <<>>
    /\ UNCHANGED <<last_poll, svc, now, req, harness, vvars>>
FlushSaveDropping ==
    /\ flush.pc = "saving"
    /\ UNCHANGED <<rows, nextId>>
    /\ flush' = [pc |-> "sleep", batch |-> <<>>]
    /\ UNCHANGED <<quotes_buffer, last_poll, svc, now, req, harness, vvars>>
FlushSave ==
    /\ flush.pc = "saving"
    /\ rows' = rows \cup InsertAll(flush.batch, nextId)
    /\ nextId' = nextId + Len(flush.batch)
    /\ flush' = [pc |-> "sleep", batch |-> <<>>]
    /\ UNCHANGED <<quotes_buffer, last_poll, svc, now, req, harness, vvars>>

\* one round of _periodic_cleanup (lines 164-178)
PeriodicCleanup ==
    /\ CleanupOldQuotes(QUOTE_RETENTION_DAYS)
    /\ UNCHANGED <<now, req, harness, vvars, ingestvars>>

\* the ingester process and the API process on one database file
SystemInit ==
    /\ StoreIdle
    /\ harness = "storage"
    /\ ValidatorsOff

SystemNext ==
    \/ \E failed \in BOOLEAN, data \in FeedResponses : Poll(failed, data)
    \/ FlushTake
    \/ FlushSave
    \/ PeriodicCleanup
    \/ Tick
    \/ \E amount \in Amounts, f \in RequestSymbols, t \in RequestSymbols,
          ts \in TimestampParams : ConvertStart(amount, f, t, ts)
    \/ LookupFrom
    \/ LookupTo
    \/ RequestDone

SpecSystem == SystemInit /\ [][SystemNext]_vars

\* the event loop wakes _periodic_save after every save interval and
\* resumes it when the save it awaits has completed
FairSystem == WF_vars(FlushTake) /\ WF_vars(FlushSave)

SpecSystemFair == SpecSystem /\ FairSystem

\* C10: a conversion between two identical symbols that succeeds yields
\* rate 1, under every interleaving of the request with the ingester's
\* flushes and retention sweeps.
C10_SameSymbolRateOne ==
    (/\ req.pc = "done"
     /\ req.from_symbol = req.to_symbol
     /\ req.rate_info.kind = "rate") =>
        req.rate_info.rate.num = req.rate_info.rate.den

----------------------------------------------------------------------------
(* The methods of the store called one after the other, as a test calls    *)
(* them on its QuoteStorage                                                 *)

HalfHour == 1800

\* timestamps a test gives its quotes: the current time (aware UTC, naive,
\* +01:00), the same three exactly QUOTE_RETENTION_DAYS ago, 8 days ago
\* (test_cleanup_old_quotes), and 00:30 of the current day at +01:00, which
\* is 23:30 UTC of the day before
OpStamps(clock) ==
    StampChoices(clock)
    \cup StampChoices(clock - QUOTE_RETENTION_DAYS * SecondsPerDay)
    \cup {NowUTC(clock - (QUOTE_RETENTION_DAYS + 1) * SecondsPerDay),
          Stamp((clock \div SecondsPerDay) * SecondsPerDay + HalfHour, TRUE,
                OneHour)}

\* batches a test saves: empty, one BTCUSDT quote at any of the timestamps,
\* one ETHUSDT quote, the pair of conftest.py sample_quotes, and two
\* BTCUSDT quotes of which the first was taken a minute earlier and is
\* stamped at +01:00
OpBatches(clock) ==
    {<<>>}
    \cup {<<MkQuote(BTCUSDT, 45000, ts)>> : ts \in OpStamps(clock)}
    \cup {<<MkQuote(ETHUSDT, 3000, NowUTC(clock))>>}
    \cup {<<MkQuote(BTCUSDT, 45000, NowUTC(clock)),
            MkQuote(ETHUSDT, 3000, NowUTC(clock))>>}
    \cup {<<MkQuote(BTCUSDT, 44000, Stamp(clock - 60 + OneHour, TRUE, OneHour)),
            MkQuote(BTCUSDT, 45000, NowUTC(clock))>>}

\* the timestamp argument of a lookup: none, 12:00 UTC and 23:00 UTC of the
\* current day, and the naive 12:00 of the current day
OpTargets ==
    {TsParam("absent", NoStamp), TsParam("iso", Stamp(T0, TRUE, 0)),
     TsParam("iso", Stamp(T0 + 11 * OneHour, TRUE, 0)),
     TsParam("iso", Stamp(T0, FALSE, 0))}

\* the record of a finished call of a lookup method
Got(via, impl, symbol, timestamp, found) ==
    [IdleRequest EXCEPT !.pc = "done", !.via = via, !.impl = impl,
        !.from_symbol = symbol, !.live = (timestamp.kind # "iso"),
        !.target = timestamp.value, !.from_found = found,
        !.checked_at = now]

\* await storage.get_quote(symbol, timestamp)
GetQuote(impl, symbol, timestamp) ==
    /\ req.pc = "idle"
    /\ impl = harness
    /\ \E found \in GetQuoteResults(impl, symbol, timestamp.kind # "iso",
                                    timestamp.value) :
         req' = Got("get_quote", impl, symbol, timestamp, found)
    /\ UNCHANGED <<rows, nextId, now, harness, vvars, ingestvars>>

\* await storage.get_quote_closest_timestamp(symbol, target_timestamp); only
\* the QuoteStorage of storage/quote_storage.py has the method
GetQuoteClosestTimestamp(symbol, target_timestamp) ==
    /\ req.pc = "idle"
    /\ harness = "storage"
    /\ target_timestamp.kind = "iso"
    /\ \E found \in GetQuoteResults("storage", symbol, FALSE,
                                    target_timestamp.value) :
         req' = Got("closest", "storage", symbol, target_timestamp, found)
    /\ UNCHANGED <<rows, nextId, now, harness, vvars, ingestvars>>

\* await storage.save_quotes(quotes)
OpSave(quotes) ==
    /\ req.pc = "idle"
    /\ SaveQuotes(quotes)
    /\ UNCHANGED <<now, req, harness, vvars, ingestvars>>

\* await storage.cleanup_old_quotes()
OpCleanup ==
    /\ req.pc = "idle"
    /\ CleanupOldQuotes(QUOTE_RETENTION_DAYS)
    /\ UNCHANGED <<now, req, harness, vvars, ingestvars>>

OpsInit ==
    /\ StoreIdle
    /\ harness \in {"storage", "shared"}
    /\ ValidatorsOff

OpsNext ==
    \/ \E quotes \in OpBatches(now) : OpSave(quotes)
    \/ OpCleanup
    \/ \E impl \in {"storage", "shared"}, symbol \in StoreSymbols,
          timestamp \in OpTargets : GetQuote(impl, symbol, timestamp)
    \/ \E symbol \in StoreSymbols, target_timestamp \in OpTargets :
          GetQuoteClosestTimestamp(symbol, target_timestamp)
    \/ \E impl \in {"storage", "shared"}, f \in StoreSymbols,
          t \in StoreSymbols, ts \in DirectTargets : DirectStart(impl, f, t, ts)
    \/ LookupFrom
    \/ LookupTo
    \/ RequestDone
    \/ Tick

SpecOps == OpsInit /\ [][OpsNext]_vars

----------------------------------------------------------------------------
(* Properties of the lookups *)

SymbolRows(symbol) == {r \in rows : r.symbol = symbol}

\* the call returned the Quote of a row of `among` and no row of `among` has
\* a later instant (a naive timestamp read as UTC); nothing when `among`
\* is empty
ReturnsChronologicallyLast(found, among) ==
    IF among = {} THEN found.kind = "none"
    ELSE /\ found.kind = "quote"
         /\ \E r \in among : RowQuote(r) = found.quote
         /\ \A o \in among :
               Instant(o.timestamp) <= Instant(found.quote.timestamp)

\* the calendar date written in a timestamp
DateOf(dt) == dt.local \div SecondsPerDay

\* the rows of a symbol dated on the calendar day of t
DatedRows(symbol, t) ==
    {r \in SymbolRows(symbol) : DateOf(r.timestamp) = DateOf(t)}

\* C11: get_quote(symbol) without timestamp returns the row of the symbol
\* whose timestamp is chronologically the latest, or nothing when the symbol
\* has no row, whatever the insertion order and the UTC offsets of the rows.
C11_LatestIsChronologicallyLast ==
    (req.pc = "done" /\ req.via = "get_quote" /\ req.live) =>
        ReturnsChronologicallyLast(req.from_found, SymbolRows(req.from_symbol))

\* C12: get_quote_closest_timestamp(symbol, t) returns the row of the symbol
\* with the latest timestamp among the rows dated on the calendar day of t,
\* never a row of another day or symbol, and nothing when the symbol has no
\* row on that day.
C12_ClosestIsLastOfDay ==
    (req.pc = "done" /\ req.via = "closest") =>
        ReturnsChronologicallyLast(req.from_found,
                                   DatedRows(req.from_symbol, req.target))

\* C13: get_quote(symbol, t) of shared/storage.py, the QuoteStorage of the
\* endpoint and of the test fixture, returns the last quote of the calendar
\* day of t, not only a row whose timestamp equals t.
C13_SharedGetQuoteIsDayBucketed ==
    (/\ req.pc = "done"
     /\ req.via = "get_quote"
     /\ req.impl = "shared"
     /\ ~req.live) =>
        ReturnsChronologicallyLast(req.from_found,
                                   DatedRows(req.from_symbol, req.target))

\* the instant at which the calendar day of t begins in the offset of t
DayStartInstant(t) == Instant(DayStart(t))

\* the instant of the row lies within the calendar day of t in t's offset
Eligible(r, t) ==
    /\ DayStartInstant(t) <= Instant(r.timestamp)
    /\ Instant(r.timestamp) < DayStartInstant(t) + SecondsPerDay

\* C14: a historical lookup of storage/quote_storage.py returns a row whose
\* instant lies within the day of t in t's own offset (UTC when t is naive),
\* and returns one whenever the symbol has such a row, whatever offsets the
\* rows were stored with.
C14_DayInTargetOffset ==
    (/\ req.pc = "done"
     /\ req.via \in {"get_quote", "closest"}
     /\ req.impl = "storage"
     /\ ~req.live) =>
        LET eligible == {r \in SymbolRows(req.from_symbol) :
                            Eligible(r, req.target)}
        IN  /\ req.from_found.kind = "quote" =>
                  \E r \in eligible : RowQuote(r) = req.from_found.quote
            /\ eligible # {} => req.from_found.kind = "quote"

----------------------------------------------------------------------------
(* Properties of cleanup_old_quotes and save_quotes *)

\* C15: cleanup_old_quotes(retention_days) deletes exactly the rows whose
\* instant is earlier than now - retention_days, of any symbol and whatever
\* offset their timestamps carry; a row exactly at the cutoff is kept.
\* (Stated for the rows whose timestamp carries an offset.)
C15_CleanupDeletesExactlyOlder ==
    [][OpCleanup =>
          /\ rows' \subseteq rows
          /\ \A r \in rows :
                r.timestamp.aware =>
                    (r \in rows' <=>
                        Instant(r.timestamp) >=
                            now - QUOTE_RETENTION_DAYS * SecondsPerDay)]_vars

\* the symbol, price and timestamp of a row
QuoteOfRow(r) == MkQuote(r.symbol, r.price, r.timestamp)

\* the rows that a step added
AddedRows == rows' \ rows

\* C16: save_quotes(batch) adds each quote of the batch exactly once as a
\* row of its own (also when a row with the same symbol and timestamp is
\* stored already), keeps every stored row, makes the symbols of the batch
\* visible to a read that follows, and changes nothing for the empty batch.
C16_SaveAddsEachQuoteOnce ==
    [][\A quotes \in OpBatches(now) :
          OpSave(quotes) =>
              /\ rows \subseteq rows'
              /\ Cardinality(AddedRows) = Len(quotes)
              /\ \A r \in AddedRows : \A o \in rows : o.id # r.id
              /\ \A i \in 1..Len(quotes) :
                    Cardinality({r \in AddedRows :
                                    QuoteOfRow(r) = quotes[i]}) =
                    Cardinality({j \in 1..Len(quotes) :
                                    quotes[j] = quotes[i]})
              /\ \A i \in 1..Len(quotes) :
                    \A found \in GetQuoteResults(harness, quotes[i].symbol,
                                                 TRUE, NoStamp)' :
                        found.kind = "quote"
              /\ quotes = <<>> => rows' = rows]_vars

C16_Witness ==
    /\ \E a \in rows, b \in rows :
          /\ a.id # b.id
          /\ a.symbol = b.symbol
          /\ a.timestamp = b.timestamp
    /\ req.pc = "done"
    /\ req.via = "get_quote"
    /\ req.from_found.kind = "quote"

\* C17: after save_quotes(batch) on a store that held no row of a symbol s
\* of the batch, get_quote(s) returns the quote of the batch that has the
\* latest timestamp for s.
C17_RoundTripLatestOfBatch ==
    [][\A quotes \in OpBatches(now) :
          OpSave(quotes) =>
              \A i \in 1..Len(quotes) :
                  LET s == quotes[i].symbol
                  IN  SymbolRows(s) = {} =>
                        \A found \in GetQuoteResults(harness, s, TRUE,
                                                     NoStamp)' :
                            /\ found.kind = "quote"
                            /\ \E j \in 1..Len(quotes) :
                                  quotes[j] = found.quote
                            /\ \A j \in 1..Len(quotes) :
                                  quotes[j].symbol = s =>
                                      Instant(quotes[j].timestamp) <=
                                          Instant(found.quote.timestamp)]_vars

\* C18: every stored row has a price above zero, in every reachable state.
C18_StoredPricesPositive == \A r \in rows : r.price > 0

\* C19: rows are only inserted and deleted: a step that starts, advances or
\* ends a lookup or a conversion leaves the table unchanged, a save only
\* adds rows, a cleanup only removes rows, and a row that stays keeps its
\* symbol, price and timestamp.
C19_RowsOnlyInsertedOrDeleted ==
    [][/\ req' # req => rows' = rows
       /\ nextId' # nextId => rows \subseteq rows'
       /\ nextId' = nextId => rows' \subseteq rows
       /\ \A r \in rows, n \in rows' : r.id = n.id => r = n]_vars

C19_Witness ==
    /\ rows # {}
    /\ Cardinality(rows) < nextId - 1
    /\ req.pc = "done"
    /\ req.via = "direct"
    /\ req.rate_info.kind = "rate"

\* the quotes that were polled and are not persisted yet, oldest first
Pending == flush.batch \o quotes_buffer

IsPrefix(a, b) == Len(a) <= Len(b) /\ SubSeq(b, 1, Len(a)) = a

\* C21: with respect to the poll loop a flush takes the whole buffer and
\* empties it in one step: a poll only appends to the pending quotes, also
\* while a save is in flight, whose batch it leaves alone; every other step
\* keeps the pending quotes as they are or removes exactly the batch in
\* flight from their front and stores exactly its quotes.
C21_FlushSwapIsAtomic ==
    [][/\ last_poll' # last_poll =>
             /\ IsPrefix(quotes_buffer, quotes_buffer')
             /\ flush' = flush
             /\ rows' = rows
       /\ last_poll' = last_poll =>
             \/ Pending' = Pending /\ rows' \subseteq rows
             \/ /\ flush.pc = "saving"
                /\ Pending = flush.batch \o Pending'
                /\ quotes_buffer' = quotes_buffer
                /\ rows' = rows \cup InsertAll(flush.batch, nextId)
                /\ Cardinality(rows' \ rows) = Len(flush.batch)]_vars

C21_Witness ==
    /\ flush.pc = "saving"
    /\ flush.batch # <<>>
    /\ quotes_buffer # <<>>
    /\ last_poll > T0

\* the entry has a symbol and a price that is a number above zero
WellFormed(e) ==
    /\ e.has_symbol
    /\ Upper(e.symbol) # <<>>
    /\ e.price_kind = "number"
    /\ e.price > 0

\* C20: whatever malformed entries a feed response contains, every
\* well-formed entry of it yields a quote in the buffer.
C20_WellFormedEntriesAreKept ==
    [][\A data \in FeedResponses :
          Poll(FALSE, data) =>
              \A i \in 1..Len(data) :
                  WellFormed(data[i]) =>
                      \E j \in (Len(quotes_buffer) + 1)..Len(quotes_buffer') :
                          quotes_buffer'[j] =
                              MkQuote(Upper(data[i].symbol), data[i].price,
                                      NowUTC(now))]_vars

----------------------------------------------------------------------------
(* The lifecycle of the ingester (QuoteConsumer.start) and of the API      *)
(* (lifespan): start, the three tasks of the TaskGroup, store errors,      *)
(* cancellation, close                                                     *)

\* what initialize() does: both steps succeed, aiosqlite.connect /
\* sqlite3.connect raises, or _create_tables raises on the open connection
InitOutcomes == {"ok", "connect_fails", "create_tables_fails"}

\* the connection attribute after initialize() with that outcome
ConnectionAfter(outcome) == IF outcome = "connect_fails" THEN "none" ELSE "open"

\* QuoteStorage.close(): closes the connection if there is one
Closed(conn) == IF conn = "open" THEN "closed" ELSE conn

\* ticker responses seen by the ingester in this part
LifeFeeds ==
    { <<GoodBTC>>, <<GoodBTC, GoodETH>>,
      <<Entry(TRUE, ETHUSDT, "null", 0), GoodBTC>> }

\* start() enters _managed_lifecycle: initialize(), then the TaskGroup with
\* the three tasks; a failure of initialize() goes to the finally clause
Start(outcome) ==
    /\ svc.phase = "new"
    /\ svc' = IF outcome = "ok"
               THEN Service("running", "running", "none", "open",
                            svc.api, svc.api_conn)
               ELSE [svc EXCEPT !.phase = "init_failed",
                                !.cause = "init_error",
                                !.conn = ConnectionAfter(outcome)]
    /\ UNCHANGED <<quotes_buffer, last_poll, flush, storevars, vvars>>

\* one round of _http_handler while the service runs
HttpHandlerRound(failed, data) ==
    /\ svc.phase = "running"
    /\ svc.http = "running"
    /\ Poll(failed, data)

\* _periodic_save wakes up and _flush_quotes_buffer takes the buffer
PeriodicSaveTake ==
    /\ svc.phase = "running"
    /\ svc.save = "running"
    /\ FlushTake

\* the save of the batch completes
PeriodicSaveDone ==
    /\ svc.phase = "running"
    /\ svc.save = "running"
    /\ FlushSave

\* a task has raised: the TaskGroup cancels the other tasks
Aborting(s, cause) == [s EXCEPT !.phase = "stopping", !.cause = cause]

\* save_quotes raises a store error: `except Exception` of _periodic_save
\* logs and re-raises (lines 151-153), the task ends with the exception
PeriodicSaveFails ==
    /\ svc.phase = "running"
    /\ svc.save = "running"
    /\ flush.pc = "saving"
    /\ flush' = [pc |-> "sleep", batch |-> <<>>]
    /\ svc' = [Aborting(svc, "error") EXCEPT !.save = "done"]
    /\ UNCHANGED <<quotes_buffer, last_poll, storevars, vvars>>

\* one round of _periodic_cleanup while the service runs
PeriodicCleanupRound ==
    /\ svc.phase = "running"
    /\ svc.cleanup = "running"
    /\ PeriodicCleanup

\* cleanup_old_quotes raises a store error: `except Exception` of
\* _periodic_cleanup logs and re-raises (lines 176-178)
PeriodicCleanupFails ==
    /\ svc.phase = "running"
    /\ svc.cleanup = "running"
    /\ svc' = [Aborting(svc, "error") EXCEPT !.cleanup = "done"]
    /\ UNCHANGED <<quotes_buffer, last_poll, flush, storevars, vvars>>

\* the shutdown signal: the task of start() is cancelled inside the
\* TaskGroup, which cancels its three tasks
Shutdown ==
    /\ svc.phase = "running"
    /\ svc' = Aborting(svc, "cancel")
    /\ UNCHANGED <<quotes_buffer, last_poll, flush, storevars, vvars>>

\* CancelledError reaches _http_handler (lines 136-138)
HttpHandlerCancelled ==
    /\ svc.phase = "stopping"
    /\ svc.http = "running"
    /\ svc' = [svc EXCEPT !.http = "done"]
    /\ UNCHANGED <<quotes_buffer, last_poll, flush, storevars, vvars>>

\* CancelledError reaches _periodic_cleanup (lines 173-175)
PeriodicCleanupCancelled ==
    /\ svc.phase = "stopping"
    /\ svc.cleanup = "running"
    /\ svc' = [svc EXCEPT !.cleanup = "done"]
    /\ UNCHANGED <<quotes_buffer, last_poll, flush, storevars, vvars>>

\* what becomes of a save that the cancellation interrupts: the commit had
\* been handed to the connection's thread and runs, or the rows were
\* inserted and the commit is never called
InterruptedSaves == {"committed", "uncommitted"}

\* CancelledError reaches _periodic_save (lines 146-150), in its sleep or
\* inside the save in flight, and the handler runs the final
\* _flush_quotes_buffer: an empty buffer returns at once (line 158), else
\* save_quotes inserts the buffer and commits the connection's transaction
PeriodicSaveCancelled(interrupted) ==
    /\ svc.phase = "stopping"
    /\ svc.save = "running"
    /\ LET in_flight == IF flush.pc = "saving" THEN flush.batch ELSE <<>>
           committed == IF interrupted = "committed" THEN in_flight ELSE <<>>
           open_tx == IF interrupted = "committed" THEN <<>> ELSE in_flight
           stored == IF quotes_buffer = <<>> THEN committed
                     ELSE committed \o open_tx \o quotes_buffer
       IN  /\ rows' = rows \cup InsertAll(stored, nextId)
           /\ nextId' = nextId + Len(stored)
           /\ svc' = [svc EXCEPT !.save = "done",
                         !.uncommitted = IF quotes_buffer = <<>> THEN open_tx
                                         ELSE <<>>]
    /\ quotes_buffer' = <<>>
    /\ flush' = [pc |-> "sleep", batch |-> <<>>]
    /\ UNCHANGED <<last_poll, now, req, harness, vvars>>

HttpHandlerDone == svc.http = "done"
\* TaskGroup.__aexit__ returns when every task has finished
AllTasksDone ==
    svc.http = "done" /\ svc.save = "done" /\ svc.cleanup = "done"

\* the finally clause of _managed_lifecycle: storage.close(); the rows of
\* an open transaction are rolled back
StorageClose ==
    /\ \/ svc.phase = "init_failed"
       \/ svc.phase = "stopping" /\ AllTasksDone
    /\ svc' = [svc EXCEPT !.phase = "exited", !.conn = Closed(svc.conn)]
    /\ UNCHANGED <<quotes_buffer, last_poll, flush, storevars, vvars>>

\* the lifespan of the API up to its yield (service.py lines 27-32): an
\* exception of initialize() leaves the function, which has no finally
LifespanStartup(outcome) ==
    /\ svc.api = "new"
    /\ svc' = [svc EXCEPT !.api = IF outcome = "ok" THEN "up" ELSE "failed",
                          !.api_conn = ConnectionAfter(outcome)]
    /\ UNCHANGED <<quotes_buffer, last_poll, flush, storevars, vvars>>

\* the lifespan after its yield (lines 34-37)
LifespanShutdown ==
    /\ svc.api = "up"
    /\ svc' = [svc EXCEPT !.api = "stopped", !.api_conn = Closed(svc.api_conn)]
    /\ UNCHANGED <<quotes_buffer, last_poll, flush, storevars, vvars>>

LifeInit ==
    /\ rows = {}
    /\ nextId = 1
    /\ now = T0
    /\ req = IdleRequest
    /\ quotes_buffer = <<>>
    /\ last_poll = 0
    /\ flush = [pc |-> "sleep", batch |-> <<>>]
    /\ svc = ServiceNew
    /\ harness = "storage"
    /\ ValidatorsOff

LifeNext ==
    \/ \E outcome \in InitOutcomes : Start(outcome)
    \/ \E failed \in BOOLEAN, data \in LifeFeeds : HttpHandlerRound(failed, data)
    \/ PeriodicSaveTake
    \/ PeriodicSaveDone
    \/ PeriodicSaveFails
    \/ PeriodicCleanupRound
    \/ PeriodicCleanupFails
    \/ Shutdown
    \/ HttpHandlerCancelled
    \/ PeriodicCleanupCancelled
    \/ \E interrupted \in InterruptedSaves : PeriodicSaveCancelled(interrupted)
    \/ StorageClose
    \/ \E outcome \in InitOutcomes : LifespanStartup(outcome)
    \/ LifespanShutdown
    \/ Tick

SpecLife == LifeInit /\ [][LifeNext]_vars

\* the event loop runs every task that can run, and the finally clause
FairLife ==
    /\ WF_vars(HttpHandlerCancelled)
    /\ WF_vars(PeriodicCleanupCancelled)
    /\ WF_vars(\E interrupted \in InterruptedSaves :
                    PeriodicSaveCancelled(interrupted))
    /\ WF_vars(StorageClose)

SpecLifeFair == SpecLife /\ FairLife

----------------------------------------------------------------------------
(* Properties of the lifecycle                                             *)

\* C22: when the ingester is shut down by cancellation, every polled quote
\* that was not yet persisted is persisted by the time the flush task has
\* exited, whether the cancellation arrived in the sleep or during a save
\* in flight: nothing stays in the buffer and no batch stays uncommitted.
C22_NoPolledQuoteLostAtShutdown ==
    svc.cause = "cancel" /\ svc.save = "done" =>
        /\ quotes_buffer = <<>>
        /\ flush.batch = <<>>
        /\ svc.uncommitted = <<>>

\* C23: the connection is closed only after the flush task (and the other
\* tasks) have finished, rows are written only while the connection is
\* open, and every shutdown and every failed start reaches close().
C23_CloseAfterFinalFlush ==
    /\ [](svc.conn = "closed" => svc.save # "running")
    /\ [][rows' # rows => svc.conn = "open" /\ svc.conn' = "open"]_vars
    /\ (svc.phase \in {"stopping", "init_failed"}) ~> (svc.phase = "exited")

C23_Witness ==
    /\ svc.phase = "exited"
    /\ svc.cause = "cancel"
    /\ svc.conn = "closed"
    /\ svc.save = "done"
    /\ rows # {}

\* C24: a failed poll (a network error, a bad status, a response that
\* cannot be parsed) appends nothing to the buffer and leaves the poll
\* loop and the ingester running, the next poll being due one polling
\* interval later; the poll loop ends only when the ingester stops.
C24_FailedPollIsRetried ==
    /\ [][\A data \in LifeFeeds :
            HttpHandlerRound(TRUE, data)
            \/ (HttpHandlerRound(FALSE, data)
                /\ \E i \in 1..Len(data) :
                     parse_binance_rest_ticker(data[i], NowUTC(now)).kind
                         = "raised")
            => /\ quotes_buffer' = quotes_buffer
               /\ svc'.http = "running"
               /\ svc'.phase = "running"
               /\ last_poll' = now]_vars
    /\ [](svc.http = "done" => svc.phase # "running")
    /\ [](svc.phase = "running" /\ svc.http = "running"
             /\ last_poll # 0 /\ now >= last_poll + http_polling_interval
             /\ QuotesInSystem < MaxRows
          => ENABLED HttpHandlerRound(FALSE, <<GoodBTC>>))

\* a poll has been made and has failed: the ingester holds no quote
C24_Witness ==
    /\ svc.phase = "running"
    /\ svc.http = "running"
    /\ last_poll # 0
    /\ QuotesInSystem = 0

\* the quotes of a sequence, and the quotes that the table holds
QuotesOf(quotes) == {quotes[i] : i \in 1..Len(quotes)}
NoRepeat(quotes) ==
    \A i \in 1..Len(quotes), j \in 1..Len(quotes) :
        quotes[i] = quotes[j] => i = j
StoredQuotes == {QuoteOfRow(r) : r \in rows}

\* C33: no quote is passed to save_quotes twice.  A flush hands over the
\* whole buffer and empties it; a quote that is in a batch, in an
\* interrupted save or in a row is never in the buffer again; every new row
\* comes from the batch being saved or from the buffer drained at
\* shutdown, one row per quote; and once the flush task has ended, after a
\* failed or cancelled save too, nothing is saved any more.
C33_NoQuoteSavedTwice ==
    /\ [](/\ NoRepeat(quotes_buffer)
          /\ NoRepeat(flush.batch)
          /\ QuotesOf(quotes_buffer) \cap QuotesOf(flush.batch) = {}
          /\ QuotesOf(quotes_buffer) \cap QuotesOf(svc.uncommitted) = {}
          /\ QuotesOf(quotes_buffer) \cap StoredQuotes = {}
          /\ QuotesOf(flush.batch) \cap StoredQuotes = {}
          /\ \A r1 \in rows, r2 \in rows :
                QuoteOfRow(r1) = QuoteOfRow(r2) => r1 = r2)
    /\ [][/\ (flush'.batch # flush.batch /\ flush'.batch # <<>>) =>
                /\ flush'.batch = quotes_buffer
                /\ quotes_buffer' = <<>>
          /\ {QuoteOfRow(r) : r \in rows' \ rows}
                \subseteq QuotesOf(flush.batch) \cup QuotesOf(quotes_buffer)
          /\ svc.save = "done" => (rows' = rows /\ flush' = flush)]_vars

\* the save of a batch has failed while newer quotes wait in the buffer
C33_Witness ==
    /\ svc.cause = "error"
    /\ svc.save = "done"
    /\ flush.batch = <<>>
    /\ quotes_buffer # <<>>
    /\ rows = {}

\* the times the clock can show, and the quotes that a poll can append
RECURSIVE ClocksFrom(_)
ClocksFrom(clock) ==
    {clock} \cup UNION {ClocksFrom(clock + d) :
                          d \in {e \in TickSteps : clock + e <= T0 + MaxElapsed}}

PolledQuotes ==
    UNION {QuotesOf(fetch_quotes_http(FALSE, data, clock)) :
             data \in FeedResponses, clock \in ClocksFrom(T0)}

\* C34: when saves succeed and the loops are scheduled fairly, every quote
\* that a poll has appended to the buffer becomes a row; the flush tick
\* that follows the append takes every buffered quote, so the buffer is
\* empty when the save starts, and the save stores the whole batch.
C34_BufferedQuotesArePersisted ==
    /\ \A q \in PolledQuotes :
          (q \in QuotesOf(quotes_buffer)) ~> (q \in StoredQuotes)
    /\ [][/\ (flush.pc = "sleep" /\ flush'.pc = "saving") =>
                /\ flush'.batch = quotes_buffer
                /\ quotes_buffer' = <<>>
          /\ (flush.pc = "saving" /\ flush'.pc = "sleep") =>
                QuotesOf(flush.batch) \subseteq {QuoteOfRow(r) : r \in rows'}]_vars

\* a quote polled while an earlier batch was being saved has become a row
C34_Witness ==
    /\ Cardinality(rows) >= 2
    /\ \E r1 \in rows, r2 \in rows :
          Instant(r1.timestamp) < Instant(r2.timestamp)
    /\ quotes_buffer = <<>>
    /\ flush.pc = "sleep"

\* C25: a store error inside the flush loop or the retention-sweep loop
\* stays inside that loop: the three tasks and the ingester keep running.
C25_StoreErrorStaysInItsLoop ==
    svc.cause = "error" =>
        /\ svc.phase = "running"
        /\ svc.http = "running"
        /\ svc.save = "running"
        /\ svc.cleanup = "running"

\* C26: once start() of the ingester or the lifespan of the API has ended,
\* normally or by a failure of initialize(), no connection that the
\* service opened is still open.
C26_ConnectionClosedOnEveryExit ==
    /\ svc.phase = "exited" => svc.conn # "open"
    /\ svc.api \in {"stopped", "failed"} => svc.api_conn # "open"

----------------------------------------------------------------------------
(* Inputs of the validators: every string over a two-letter alphabet up to *)
(* MaxSymLen, and trading symbols of the kind the tests use                *)

Alphabet == {"B", "T"}

RECURSIVE StringsOfLen(_)
StringsOfLen(n) ==
    IF n = 0 THEN {<<>>}
    ELSE {Append(s, c) : s \in StringsOfLen(n - 1), c \in Alphabet}

SmallStrings == UNION {StringsOfLen(n) : n \in 0..MaxSymLen}

NamedSymbols ==
    { <<"B","T","C","U","S","D","T">>, <<"E","T","H","U","S","D","T">>,
      <<"b","t","c","u","s","d","t">>, <<"E","T","H","B","T","C">>,
      <<"B","T","C","U","S","D","C">>, <<"E","T","H","U","S","D","C">>,
      <<"B","T","C">>, <<"E","T","H">>, <<"T","B","T","C">>,
      <<"U","S","D","T">>, <<"T","U","S","D","T">> }

Symbols == SmallStrings \cup NamedSymbols

----------------------------------------------------------------------------
(* The validators applied to one pair *)

VInit ==
    /\ StoreIdle
    /\ harness = "shared"
    /\ vFrom \in Symbols
    /\ vTo \in Symbols
    /\ vPc = "start"
    /\ vResult = [ok |-> FALSE, status_code |-> 0, error |-> "",
                  message |-> [from |-> <<>>, to |-> <<>>], matched |-> 0]
    /\ tv = TimestampIdle
    /\ qs = StorageIdle

\* a call of validate_same_base_currencies(vFrom, vTo)
Validate ==
    /\ vPc = "start"
    /\ vResult' = validate_same_base_currencies(vFrom, vTo)
    /\ vPc' = "validated"
    /\ UNCHANGED <<vFrom, vTo, tv, qs, storevars, ingestvars>>

\* the pair check of convert_currency (service.py lines 80-92) on the same
\* two query parameters
EndpointPairCheck ==
    /\ vPc = "start"
    /\ LET from_symbol == Upper(vFrom)
           to_symbol == Upper(vTo)
       IN  vResult' =
             IF is_direct_pair(from_symbol, to_symbol)
             THEN [ok |-> TRUE, status_code |-> 0, error |-> "",
                   message |-> [from |-> <<>>, to |-> <<>>], matched |-> 0]
             ELSE [ok |-> FALSE, status_code |-> 400,
                   error |-> "unsupported_conversion",
                   message |-> [from |-> from_symbol, to |-> to_symbol],
                   matched |-> 0]
    /\ vPc' = "endpoint"
    /\ UNCHANGED <<vFrom, vTo, tv, qs, storevars, ingestvars>>

VNext == Validate \/ EndpointPairCheck

SpecValidators == VInit /\ [][VNext]_vars

----------------------------------------------------------------------------
(* validate_timestamp applied to one argument, and to its own result *)

\* the texts: a date, a separator, a time of day and a suffix, each part
\* well-formed or not
TimestampTexts ==
    LET DateParts == {"1970-01-11", "1970-13-11", "invalid-date"}
        TimeParts == {"12:00:00", "00:00:00", "25:00:00"}
        SuffixParts == {"Z", "z", "+00:00", "+01:00"}
    IN  {<<>>}
        \cup {<<d>> : d \in DateParts}
        \cup {<<d, x>> : d \in DateParts, x \in {"T", "Z", "+01:00"}}
        \cup {<<d, c, t>> : d \in DateParts, c \in OneCharacter,
                            t \in TimeParts}
        \cup {<<d, c, t, x>> : d \in DateParts, c \in OneCharacter,
                               t \in TimeParts, x \in SuffixParts}

TimestampArguments ==
    {TsNone}
    \cup {TsStr(text) : text \in TimestampTexts}
    \cup {TsDatetime(value) :
            value \in {Stamp(T0, FALSE, 0), Stamp(T0, TRUE, 0),
                       Stamp(T0 + OneHour, TRUE, OneHour)}}

TimestampInit ==
    /\ StoreIdle
    /\ harness = "shared"
    /\ vFrom = <<>>
    /\ vTo = <<>>
    /\ vPc = "off"
    /\ vResult = [ok |-> FALSE, status_code |-> 0, error |-> "",
                  message |-> [from |-> <<>>, to |-> <<>>], matched |-> 0]
    /\ \E v \in TimestampArguments :
         tv = [TimestampIdle EXCEPT !.pc = "start", !.v = v]
    /\ qs = StorageIdle

\* a call validate_timestamp(v)
ValidateTimestamp ==
    /\ tv.pc = "start"
    /\ tv' = [tv EXCEPT !.pc = "validated", !.result = validate_timestamp(tv.v)]
    /\ UNCHANGED <<vFrom, vTo, vPc, vResult, qs, storevars, ingestvars>>

\* a call of validate_timestamp on the value that the first call returned
ValidateTimestampAgain ==
    /\ tv.pc = "validated"
    /\ tv.result.kind # "ValueError"
    /\ tv' = [tv EXCEPT !.pc = "revalidated",
                        !.again = validate_timestamp(tv.result)]
    /\ UNCHANGED <<vFrom, vTo, vPc, vResult, qs, storevars, ingestvars>>

TimestampNext == ValidateTimestamp \/ ValidateTimestampAgain

SpecTimestamp == TimestampInit /\ [][TimestampNext]_vars

\* ISO-8601 as the texts the arguments are drawn from can express it: a
\* calendar date, alone or followed by "T" (or, by agreement, a space), a
\* time of day and optionally "Z" or "+hh:mm"
IsISO8601(text) ==
    /\ Len(text) \in {1, 3, 4}
    /\ DateSeconds(text[1]) >= 0
    /\ Len(text) >= 3 => /\ text[2] \in {"T", " "}
                         /\ TimeSeconds(text[3]) >= 0
    /\ Len(text) = 4 => text[4] \in {"Z", "+00:00", "+01:00"}

\* C32: validate_timestamp returns None for None and for the empty string,
\* returns a datetime argument unchanged, returns the same value when it is
\* applied to its own result, and for a string that is not ISO-8601 raises
\* the error that the timestamp must be in ISO format.
C32_ValidateTimestamp ==
    /\ tv.pc \in {"validated", "revalidated"} =>
          /\ (tv.v = TsNone \/ tv.v = TsStr(<<>>)) => tv.result = TsNone
          /\ tv.v.kind = "datetime" => tv.result = tv.v
          /\ (tv.v.kind = "str" /\ tv.v.text # <<>> /\ ~IsISO8601(tv.v.text))
                => tv.result = TsValueError(ISO_FORMAT_MESSAGE)
    /\ tv.pc = "revalidated" => tv.again = tv.result

----------------------------------------------------------------------------
(* Concurrent calls on one QuoteStorage instance *)

InstanceInit ==
    /\ StoreIdle
    /\ harness = "shared"
    /\ vFrom = <<>>
    /\ vTo = <<>>
    /\ vPc = "off"
    /\ vResult = [ok |-> FALSE, status_code |-> 0, error |-> "",
                  message |-> [from |-> <<>>, to |-> <<>>], matched |-> 0]
    /\ tv = TimestampIdle
    /\ \E impl \in {"storage", "shared"} : qs = StorageNew(impl)

InstanceNext ==
    \E c \in Callers :
        \/ GetConnection(c)
        \/ ConnectDone(c)
        \/ Close(c)
        \/ CloseDone(c)

SpecInstance == InstanceInit /\ [][InstanceNext]_vars

\* C36: a QuoteStorage instance has at most one open connection, the one
\* that self._connection holds, under every interleaving of calls that
\* open it and close it; and close() on a closed instance changes nothing.
C36_AtMostOneOpenConnection ==
    /\ Cardinality(qs.open) <= 1
    /\ \A connection \in qs.open : connection = qs.connection

----------------------------------------------------------------------------
(* Properties of the validators *)

\* the last L characters of a and of b exist and are equal
ShareSuffixOfLen(a, b, L) ==
    /\ L <= Len(a)
    /\ L <= Len(b)
    /\ \A i \in 0..(L - 1) : a[Len(a) - i] = b[Len(b) - i]

QualifyingSuffix(a, b) ==
    \E L \in 3..(Min(Len(a), Len(b)) - 2) : ShareSuffixOfLen(a, b, L)

SharesSuffixAtLeast3(a, b) ==
    \E L \in 3..Min(Len(a), Len(b)) : ShareSuffixOfLen(a, b, L)

\* C1: validate_same_base_currencies returns without error exactly when a
\* common suffix of length L, 3 <= L <= min(len) - 2, exists; otherwise it
\* raises unsupported_conversion (422) with a message naming both symbols.
C1_AcceptsIffQualifyingSuffix ==
    vPc = "validated" =>
        /\ vResult.ok <=> QualifyingSuffix(vFrom, vTo)
        /\ ~vResult.ok =>
              /\ vResult.error = "unsupported_conversion"
              /\ vResult.status_code = 422
              /\ vResult.message.from = vFrom
              /\ vResult.message.to = vTo

C1_Witness ==
    /\ vPc = "validated"
    /\ vResult.ok
    /\ vFrom = <<"B","T","C","U","S","D","T">>
    /\ vTo = <<"E","T","H","U","S","D","T">>

\* C2 as stated: every pair sharing a common suffix of at least 3
\* characters is accepted, whatever the lengths of the symbols.
C2_Original ==
    (vPc = "validated" /\ SharesSuffixAtLeast3(vFrom, vTo)) => vResult.ok

\* C2 amended: every pair of symbols of at least 5 characters each that
\* share a common suffix of at least 3 characters is accepted.
C2_AcceptsLongEnoughPairs ==
    (/\ vPc = "validated"
     /\ Len(vFrom) >= 5
     /\ Len(vTo) >= 5
     /\ SharesSuffixAtLeast3(vFrom, vTo)) => vResult.ok

C2_Witness ==
    /\ vPc = "validated"
    /\ Len(vFrom) = 5
    /\ Len(vTo) = 6
    /\ vFrom # SliceLast(vTo, 5)
    /\ SharesSuffixAtLeast3(vFrom, vTo)
    /\ vResult.ok

\* C3: for every symbol s the base-currency check accepts the pair (s, s),
\* in the validator and in the endpoint's pair check.
C3_SameSymbolAccepted ==
    (vPc \in {"validated", "endpoint"} /\ Upper(vFrom) = Upper(vTo))
        => vResult.ok

\* C4 as stated: an accepted pair keeps at least 3 characters in front of
\* the matched suffix on each symbol.
C4_Original ==
    (vPc = "validated" /\ vResult.ok) =>
        /\ Len(vFrom) - vResult.matched >= 3
        /\ Len(vTo) - vResult.matched >= 3

\* C4 amended: an accepted pair keeps at least 2 characters in front of
\* the matched suffix on each symbol, and the matched suffix has at least
\* 3 characters.
C4_PrefixAtLeast2 ==
    (vPc = "validated" /\ vResult.ok) =>
        /\ vResult.matched >= 3
        /\ ShareSuffixOfLen(vFrom, vTo, vResult.matched)
        /\ Len(vFrom) - vResult.matched >= 2
        /\ Len(vTo) - vResult.matched >= 2

C4_Witness ==
    /\ vPc = "validated"
    /\ vResult.ok
    /\ Len(vFrom) - vResult.matched = 2
    /\ Len(vTo) - vResult.matched = 3

\* C5: the endpoint's pair check accepts exactly the pairs that share a
\* qualifying common suffix, enumerated base or not.
C5_EndpointAgreesWithHeuristic ==
    vPc = "endpoint" =>
        (vResult.ok <=> QualifyingSuffix(Upper(vFrom), Upper(vTo)))

====
